---- MODULE Spec2Model ----
(***************************************************************************)
(* The two POX controllers of SDN-Packet-Forwarding (pox/part2controller.py *)
(* and pox/part3controller.py) together with the switches they program.    *)
(* The controllers push OpenFlow 1.0 flow mods when a switch connects and  *)
(* print a diagnostic when a switch reports a table miss.  The switches    *)
(* keep the entries they received and forward packets by them.             *)
(***************************************************************************)
EXTENDS Integers, Sequences, FiniteSets, TLC

VARIABLES
  launched,   \* which component was launched: "part2" or "part3"
  alive,      \* the controller process is running
  table,      \* table[sw]: the flow entries held by switch sw, in arrival order
  outcome,    \* outcome[sw]: how the handling of sw's latest ConnectionUp ended
  pushed,     \* pushed[sw]: the connection.send calls of sw's latest ConnectionUp
  hdr,        \* header of the packet currently (or last) in the network
  ready,      \* every part3 switch was installed when that packet was sent
  inflight,   \* copies of that packet waiting at a switch: [at, inport]
  rcvd,       \* hosts that have received a copy of that packet
  diag,       \* diagnostics the PacketIn handler emitted for that packet
  aborts,     \* installations cut short by their session closing, so far
  listener,   \* listener[sw]: a controller object holds sw's connection in
              \* self.connection and is registered as its listener
  nconnect,   \* history: nconnect[sw] constructor runs for sw have returned
  nsend       \* history: nsend[sw] connection.send calls made on sw's sessions

vars == <<launched, alive, table, outcome, pushed, hdr, ready, inflight, rcvd,
          diag, aborts, listener, nconnect, nsend>>

\* the history counters
hist == <<nconnect, nsend>>

\* how many installations the environment cuts short in one run
MaxAborts == 1

\* bound on the constructor runs the history counters follow
MaxConnects == 2

-----------------------------------------------------------------------------
(* Program constants.                                                      *)

IPV4 == 2048
ICMP_PROTO == 1
ARP_ETHERTYPE == 2054

\* priority carried by an of.ofp_flow_mod() whose priority is never assigned
OFP_DEFAULT_PRIORITY == 32768

OFPP_FLOOD == "OFPP_FLOOD"
OFPP_IN_PORT == "OFPP_IN_PORT"

IPS == [h10      |-> "10.0.1.10",
        h20      |-> "10.0.2.20",
        h30      |-> "10.0.3.30",
        serv1    |-> "10.0.4.10",
        hnotrust |-> "172.16.10.100"]

-----------------------------------------------------------------------------
(* Packet descriptors: the header fields the flow entries look at.  Besides *)
(* the values the controllers name, each field has one value they do not    *)
(* name (IPv6 ether type 0x86dd, IP protocol 6); a packet that is not IPv4  *)
(* carries no IP protocol (0).                                              *)

EtherTypes == {IPV4, ARP_ETHERTYPE, 34525}
IpProtocols == {ICMP_PROTO, 6}
Addrs == {IPS[h] : h \in DOMAIN IPS}

Descriptors ==
  {p \in [dl_type : EtherTypes, nw_proto : IpProtocols \cup {0},
          nw_src : Addrs, nw_dst : Addrs] :
     p.dl_type = IPV4 <=> p.nw_proto \in IpProtocols}

Fields == {"dl_type", "nw_proto", "nw_src", "nw_dst"}

\* of.ofp_match(): every field wildcarded.  A field is the set of values it
\* admits; assigning a field narrows it to one value.
ofp_match == [dl_type |-> EtherTypes, nw_proto |-> IpProtocols \cup {0},
              nw_src |-> Addrs, nw_dst |-> Addrs]

\* of.ofp_flow_mod(): match-all, default priority, no actions (drop).
ofp_flow_mod == [match |-> ofp_match, priority |-> OFP_DEFAULT_PRIORITY,
                 actions |-> <<>>]

\* number of header fields a match constrains
Constrained(m) == Cardinality({f \in Fields : m[f] # ofp_match[f]})

\* a wildcarded field admits every value, an assigned field only its value
Matches(m, p) == \A f \in Fields : p[f] \in m[f]

IsDeny(e) == e.actions = <<>>
IsPermit(e) == e.actions # <<>>

-----------------------------------------------------------------------------
(* pox/part2controller.py: the flow mods Firewall sends.                    *)

_install_icmp_rule ==
  [ofp_flow_mod EXCEPT !.match = [ofp_match EXCEPT !.dl_type = {IPV4},
                                                   !.nw_proto = {ICMP_PROTO}],
                       !.actions = <<OFPP_FLOOD>>]

_install_arp_rule ==
  [ofp_flow_mod EXCEPT !.match = [ofp_match EXCEPT !.dl_type = {ARP_ETHERTYPE}],
                       !.actions = <<OFPP_FLOOD>>]

_install_drop_rule ==
  [ofp_flow_mod EXCEPT !.match = [ofp_match EXCEPT !.dl_type = {IPV4}]]

\* faulty variant: the drop entry is sent first
Firewall_init_swapped ==
  [sends |-> <<_install_drop_rule, _install_icmp_rule, _install_arp_rule>>,
   exits |-> FALSE, listens |-> TRUE]

\* faulty variant: the constructor neither keeps the connection nor
\* registers the object
Firewall_init_detached ==
  [sends |-> <<_install_icmp_rule, _install_arp_rule, _install_drop_rule>>,
   exits |-> FALSE, listens |-> FALSE]

\* Firewall.__init__: it keeps the connection and registers the object as
\* its listener, then makes its sends, in order; it never exits.
Firewall_init ==
  [sends |-> <<_install_icmp_rule, _install_arp_rule, _install_drop_rule>>,
   exits |-> FALSE, listens |-> TRUE]

-----------------------------------------------------------------------------
(* pox/part3controller.py: the flow mods Part3Controller sends.             *)

\* faulty variant: the output action is appended twice
_install_accept_hosts_rule_twice(dst_ip) ==
  [ofp_flow_mod EXCEPT !.match = [ofp_match EXCEPT !.dl_type = {IPV4},
                                                   !.nw_dst = {dst_ip}],
                       !.actions = <<OFPP_FLOOD, OFPP_FLOOD>>]

_install_accept_hosts_rule(dst_ip) ==
  [ofp_flow_mod EXCEPT !.match = [ofp_match EXCEPT !.dl_type = {IPV4},
                                                   !.nw_dst = {dst_ip}],
                       !.actions = <<OFPP_FLOOD>>]

_install_drop_hnotrust_icmp_rule(dst_ip) ==
  [ofp_flow_mod EXCEPT !.match = [ofp_match EXCEPT !.dl_type = {IPV4},
                                                   !.nw_src = {IPS.hnotrust},
                                                   !.nw_proto = {ICMP_PROTO},
                                                   !.nw_dst = {dst_ip}]]

_install_dcs31_drop_rules ==
  [ofp_flow_mod EXCEPT !.match = [ofp_match EXCEPT !.nw_src = {IPS.hnotrust},
                                                   !.nw_dst = {IPS.serv1}]]

s1_setup == <<_install_accept_hosts_rule(IPS.h10),
              _install_drop_hnotrust_icmp_rule(IPS.h10)>>

\* faulty variant: s1's addresses left in the copy made for s2
s2_setup_copied == <<_install_accept_hosts_rule(IPS.h10),
                     _install_drop_hnotrust_icmp_rule(IPS.h10)>>

s2_setup == <<_install_accept_hosts_rule(IPS.h20),
              _install_drop_hnotrust_icmp_rule(IPS.h20)>>

\* faulty variant: the drop entry is left out
s3_setup_single == <<_install_accept_hosts_rule(IPS.h30)>>

s3_setup == <<_install_accept_hosts_rule(IPS.h30),
              _install_drop_hnotrust_icmp_rule(IPS.h30)>>

\* faulty variant: the core switch floods
cores21_setup_flood == <<[ofp_flow_mod EXCEPT !.actions = <<OFPP_FLOOD>>]>>

cores21_setup == <<[ofp_flow_mod EXCEPT !.actions = <<OFPP_IN_PORT>>]>>

dcs31_setup == <<_install_accept_hosts_rule(IPS.serv1),
                 _install_dcs31_drop_rules>>

KnownDpids == {1, 2, 3, 21, 31}

\* faulty variant: an unknown datapath id is given the core role's entry
\* before the exit
Part3Controller_init_default(dpid) ==
  [listens |-> TRUE,
   sends |-> IF dpid = 1 THEN s1_setup
             ELSE IF dpid = 2 THEN s2_setup
             ELSE IF dpid = 3 THEN s3_setup
             ELSE IF dpid = 31 THEN dcs31_setup
             ELSE cores21_setup,
   exits |-> dpid \notin KnownDpids]

\* Part3Controller.__init__: it keeps the connection and registers the
\* object as its listener, then dispatches on connection.dpid.  The last
\* branch prints "UNKNOWN SWITCH" and calls exit(1) without sending.
Part3Controller_init(dpid) ==
  [listens |-> TRUE,
   sends |-> IF dpid = 1 THEN s1_setup
             ELSE IF dpid = 2 THEN s2_setup
             ELSE IF dpid = 3 THEN s3_setup
             ELSE IF dpid = 21 THEN cores21_setup
             ELSE IF dpid = 31 THEN dcs31_setup
             ELSE <<>>,
   exits |-> dpid \notin KnownDpids]

-----------------------------------------------------------------------------
(* PacketIn handlers: what they send and what they print.                   *)

\* faulty variant: a learning handler that installs a flood entry
Firewall_handle_PacketIn_learning(parsed) ==
  IF ~parsed THEN [sends |-> <<>>, log |-> "warning"]
  ELSE [sends |-> <<[ofp_flow_mod EXCEPT !.actions = <<OFPP_FLOOD>>]>>,
        log |-> "dump"]

\* Firewall._handle_PacketIn
Firewall_handle_PacketIn(parsed) ==
  IF ~parsed THEN [sends |-> <<>>, log |-> "warning"]
  ELSE [sends |-> <<>>, log |-> "dump"]

\* faulty variant: the check of packet.parsed is missing
Part3Controller_handle_PacketIn_unchecked(parsed) ==
  [sends |-> <<>>, log |-> "dump"]

\* Part3Controller._handle_PacketIn
Part3Controller_handle_PacketIn(parsed) ==
  IF ~parsed THEN [sends |-> <<>>, log |-> "warning"]
  ELSE [sends |-> <<>>, log |-> "dump"]

-----------------------------------------------------------------------------
(* The networks the controllers are run against.                            *)

Components == {"part2", "part3"}

\* part3: the five switches of the controller's topology diagram, and one
\* more switch, s4, whose datapath id the controller does not know.
Part3Switches == {"s1", "s2", "s3", "cores21", "dcs31"}
Switches == Part3Switches \cup {"s4"}

DPID == [s1 |-> 1, s2 |-> 2, s3 |-> 3, cores21 |-> 21, dcs31 |-> 31, s4 |-> 4]

SwitchesOf(l) == IF l = "part2" THEN {"s1"} ELSE Switches

HostsOf(l) == IF l = "part2" THEN {"h1", "h2", "h3", "h4"} ELSE DOMAIN IPS

Links(l) ==
  IF l = "part2"
  THEN {{"h1", "s1"}, {"h2", "s1"}, {"h3", "s1"}, {"h4", "s1"}}
  ELSE {{"h10", "s1"}, {"h20", "s2"}, {"h30", "s3"},
        {"s1", "cores21"}, {"s2", "cores21"}, {"s3", "cores21"},
        {"cores21", "dcs31"}, {"dcs31", "serv1"}, {"cores21", "hnotrust"}}

\* the ports of node n, each named by the node at its other end
Neighbors(l, n) == {m \in HostsOf(l) \cup SwitchesOf(l) : {n, m} \in Links(l)}

\* the headers host h sends: in part3 its own address as source; the part1
\* topology gives its hosts no addresses, so any source
Sendable(l, h) ==
  {p \in Descriptors : /\ p.nw_dst # p.nw_src
                       /\ l = "part3" => p.nw_src = IPS[h]}

HostOfAddr(a) == CHOOSE h \in DOMAIN IPS : IPS[h] = a

-----------------------------------------------------------------------------
(* The switch side of OpenFlow 1.0.                                         *)

\* OFPFC_ADD: an entry with the same match and priority is replaced in
\* place, any other entry is added.
FlowAdd(tbl, fm) ==
  IF \E i \in 1..Len(tbl) : tbl[i].match = fm.match /\ tbl[i].priority = fm.priority
  THEN [i \in 1..Len(tbl) |->
          IF tbl[i].match = fm.match /\ tbl[i].priority = fm.priority
          THEN fm ELSE tbl[i]]
  ELSE Append(tbl, fm)

RECURSIVE FlowAddAll(_, _)
FlowAddAll(tbl, fms) ==
  IF fms = <<>> THEN tbl ELSE FlowAddAll(FlowAdd(tbl, Head(fms)), Tail(fms))

Matching(tbl, p) == {i \in 1..Len(tbl) : Matches(tbl[i].match, p)}

\* The entries the switch may apply to p: the matching entries of the
\* highest priority.  Among several of them the switch is free to choose.
Lookup(tbl, p) ==
  {tbl[i] : i \in {j \in Matching(tbl, p) :
                     \A k \in Matching(tbl, p) : tbl[k].priority <= tbl[j].priority}}

\* the ports one output action sends a packet that came in on inport to
Output(l, sw, inport, port) ==
  IF port = OFPP_FLOOD THEN Neighbors(l, sw) \ {inport}
  ELSE IF port = OFPP_IN_PORT THEN {inport}
  ELSE {}

OutPorts(l, sw, inport, actions) ==
  UNION {Output(l, sw, inport, actions[i]) : i \in DOMAIN actions}

-----------------------------------------------------------------------------
(* State machine.                                                           *)

NoHdr == [dl_type |-> 0, nw_proto |-> 0, nw_src |-> "", nw_dst |-> ""]

Init ==
  /\ launched \in Components
  /\ alive = TRUE
  /\ table = [sw \in Switches |-> <<>>]
  /\ outcome = [sw \in Switches |-> "none"]
  /\ pushed = [sw \in Switches |-> <<>>]
  /\ hdr = NoHdr
  /\ ready = FALSE
  /\ inflight = {}
  /\ rcvd = {}
  /\ diag = {}
  /\ aborts = 0
  /\ listener = [sw \in Switches |-> FALSE]
  /\ nconnect = [sw \in Switches |-> 0]
  /\ nsend = [sw \in Switches |-> 0]

\* faulty variant: a switch that connected before is not installed again
start_switch_cached(sw) ==
  IF outcome[sw] # "none"
  THEN [sends |-> <<>>, exits |-> FALSE, listens |-> TRUE]
  ELSE IF launched = "part2" THEN Firewall_init
  ELSE Part3Controller_init(DPID[sw])

\* launch.start_switch: every ConnectionUp constructs a new controller object
\* for the event's connection.
start_switch(sw) ==
  IF launched = "part2" THEN Firewall_init ELSE Part3Controller_init(DPID[sw])

\* faulty variant: the connection is kept in one place shared by all
\* controller objects and set by the first of them
self_connection_shared(sw) ==
  IF \E o \in Switches : outcome[o] # "none"
  THEN CHOOSE o \in Switches : outcome[o] # "none"
  ELSE sw

\* self.connection of the controller object constructed for sw's connect:
\* the connection of that ConnectionUp event
self_connection(sw) == sw

handle_PacketIn(parsed) ==
  IF launched = "part2" THEN Firewall_handle_PacketIn(parsed)
  ELSE Part3Controller_handle_PacketIn(parsed)

\* the controller hears sw's events: the process runs and a controller
\* object is registered on a connection of sw that is up
Served(sw) ==
  alive /\ listener[sw] /\ outcome[sw] \in {"installed", "UnknownSwitch"}

AllInstalled == \A sw \in Part3Switches : outcome[sw] = "installed"

\* ConnectionUp of switch sw.  The constructor makes all its sends; the first
\* k reach the switch and, when k is short of all, the session closed under
\* the installation and the later sends were discarded.  exit(1) raises
\* SystemExit inside the event handler: the process ends, unless the event
\* dispatcher intercepts the exception; both outcomes are possible.
ConnectionUp(sw, k) ==
  LET r == start_switch(sw) IN
  /\ alive
  /\ sw \in SwitchesOf(launched)
  /\ k \in 0..Len(r.sends)
  /\ k < Len(r.sends) => aborts < MaxAborts
  /\ aborts' = IF k < Len(r.sends) THEN aborts + 1 ELSE aborts
  /\ pushed' = [pushed EXCEPT ![sw] = r.sends]
  /\ listener' = [listener EXCEPT ![sw] = r.listens]
  /\ table' = [table EXCEPT ![self_connection(sw)] =
                  FlowAddAll(table[self_connection(sw)], SubSeq(r.sends, 1, k))]
  /\ outcome' = [outcome EXCEPT ![sw] =
                   IF r.exits THEN "UnknownSwitch"
                   ELSE IF k = Len(r.sends) THEN "installed" ELSE "aborted"]
  /\ alive' \in (IF r.exits THEN {TRUE, FALSE} ELSE {TRUE})
  /\ UNCHANGED <<launched, hdr, ready, inflight, rcvd, diag>>

\* host h puts a packet with header p on its link, once the network is empty
Send(h, p) ==
  /\ hdr = NoHdr
  /\ h \in HostsOf(launched)
  /\ p \in Sendable(launched, h)
  /\ hdr' = p
  /\ ready' = (launched = "part3" /\ AllInstalled)
  /\ inflight' = {[at |-> sw, inport |-> h] : sw \in Neighbors(launched, h)}
  /\ rcvd' = {}
  /\ diag' = {}
  /\ UNCHANGED <<launched, alive, listener, table, outcome, pushed, aborts>>

\* the switch holding copy c applies entry e, one of those Lookup allows
Forward(c, e) ==
  LET outs == OutPorts(launched, c.at, c.inport, e.actions) IN
  /\ c \in inflight
  /\ e \in Lookup(table[c.at], hdr)
  /\ inflight' = (inflight \ {c}) \cup
                 {[at |-> q, inport |-> c.at] : q \in outs \cap SwitchesOf(launched)}
  /\ rcvd' = rcvd \cup (outs \cap HostsOf(launched))
  /\ UNCHANGED <<launched, alive, listener, table, outcome, pushed, hdr, ready, diag, aborts>>

\* table miss at a switch the controller serves: the switch raises PacketIn
\* and _handle_PacketIn runs; the packet is not sent on
PacketIn(c, parsed) ==
  LET r == handle_PacketIn(parsed) IN
  /\ c \in inflight
  /\ Lookup(table[c.at], hdr) = {}
  /\ Served(c.at)
  /\ inflight' = inflight \ {c}
  /\ table' = [table EXCEPT ![self_connection(c.at)] =
                  FlowAddAll(table[self_connection(c.at)], r.sends)]
  /\ diag' = diag \cup {[sw |-> c.at, log |-> r.log]}
  /\ UNCHANGED <<launched, alive, listener, outcome, pushed, hdr, ready, rcvd, aborts>>

\* table miss at a switch no controller serves: the packet is lost
MissUnserved(c) ==
  /\ c \in inflight
  /\ Lookup(table[c.at], hdr) = {}
  /\ ~Served(c.at)
  /\ inflight' = inflight \ {c}
  /\ UNCHANGED <<launched, alive, listener, table, outcome, pushed, hdr, ready, rcvd, diag,
                 aborts>>

\* every copy of the packet has been delivered or dropped: it leaves the
\* network, which is empty again
Drain ==
  /\ hdr # NoHdr
  /\ inflight = {}
  /\ hdr' = NoHdr
  /\ ready' = FALSE
  /\ rcvd' = {}
  /\ diag' = {}
  /\ UNCHANGED <<launched, alive, listener, table, outcome, pushed, inflight, aborts>>

Next ==
  \/ \E sw \in Switches, k \in 0..3 : ConnectionUp(sw, k) /\ UNCHANGED hist
  \/ \E h \in HostsOf(launched), p \in Descriptors :
        Send(h, p) /\ UNCHANGED hist
  \/ \E c \in inflight : \E e \in Lookup(table[c.at], hdr) :
        Forward(c, e) /\ UNCHANGED hist
  \/ \E c \in inflight, parsed \in BOOLEAN :
        PacketIn(c, parsed) /\ UNCHANGED hist
  \/ \E c \in inflight : MissUnserved(c) /\ UNCHANGED hist
  \/ Drain /\ UNCHANGED hist

Spec == Init /\ [][Next]_vars

\* The same machine with the history counters running, for the first
\* MaxConnects constructor runs.

\* the constructor runs that have returned, over all switches
Connects ==
  nconnect["s1"] + nconnect["s2"] + nconnect["s3"] + nconnect["cores21"]
    + nconnect["dcs31"] + nconnect["s4"]

\* the constructor run of a ConnectionUp of sw: each connection.send it
\* makes is counted, and the run itself unless exit(1) ended it
CountConnect(sw) ==
  LET r == start_switch(sw) IN
  /\ Connects < MaxConnects
  /\ nsend' = [nsend EXCEPT ![sw] = @ + Len(r.sends)]
  /\ nconnect' = [nconnect EXCEPT ![sw] = IF r.exits THEN @ ELSE @ + 1]

\* a run of _handle_PacketIn for a miss at sw: each connection.send it makes
\* is counted
CountPacketIn(sw, parsed) ==
  /\ nsend' = [nsend EXCEPT ![sw] = @ + Len(handle_PacketIn(parsed).sends)]
  /\ UNCHANGED nconnect

NextCount ==
  \/ \E sw \in Switches, k \in 0..3 : ConnectionUp(sw, k) /\ CountConnect(sw)
  \/ \E h \in HostsOf(launched), p \in Descriptors :
        Send(h, p) /\ UNCHANGED hist
  \/ \E c \in inflight : \E e \in Lookup(table[c.at], hdr) :
        Forward(c, e) /\ UNCHANGED hist
  \/ \E c \in inflight, parsed \in BOOLEAN :
        PacketIn(c, parsed) /\ CountPacketIn(c.at, parsed)
  \/ \E c \in inflight : MissUnserved(c) /\ UNCHANGED hist
  \/ Drain /\ UNCHANGED hist

SpecCount == Init /\ [][NextCount]_vars

-----------------------------------------------------------------------------
(* Properties.                                                              *)

Range(q) == {q[i] : i \in DOMAIN q}

\* what the controller sends to sw on a connect, from the dispatch alone
RoleSends(sw) ==
  IF launched = "part2" THEN Firewall_init.sends
  ELSE Part3Controller_init(DPID[sw]).sends

TrustedHosts == {"h10", "h20", "h30", "serv1"}

FromHnotrust(p) == p.dl_type = IPV4 /\ p.nw_src = IPS.hnotrust

\* the traffic the part3 policy blocks: ICMP from hnotrust1, and IPv4 from
\* hnotrust1 to serv1
Blocked(p) ==
  FromHnotrust(p) /\ (p.nw_proto = ICMP_PROTO \/ p.nw_dst = IPS.serv1)

\* C1: in part3, with s1, s2, s3, cores21 and dcs31 all installed, no ICMP
\* packet from 172.16.10.100 reaches h10, h20, h30 or serv1, and no IPv4
\* packet from 172.16.10.100 reaches serv1.
C1_HnotrustBlocked ==
  (ready /\ FromHnotrust(hdr)) =>
     /\ hdr.nw_proto = ICMP_PROTO => rcvd \cap TrustedHosts = {}
     /\ "serv1" \notin rcvd

\* an ICMP packet from hnotrust1 to h10, sent with all five switches
\* installed, has been handled by every switch it reached
C1_Witness ==
  /\ ready
  /\ hdr = [dl_type |-> IPV4, nw_proto |-> ICMP_PROTO,
            nw_src |-> IPS.hnotrust, nw_dst |-> IPS.h10]
  /\ inflight = {}
  /\ rcvd # {}

\* C2: in part3, with all five switches installed, every packet between two
\* hosts that the policy does not block reaches its destination host: once
\* no copy of it is left in the network, the destination has received one.
C2_Delivered ==
  (ready /\ hdr # NoHdr /\ ~Blocked(hdr) /\ inflight = {}) =>
     HostOfAddr(hdr.nw_dst) \in rcvd

\* C3: after a completed connect, every packet descriptor has exactly one
\* entry that the switch may apply to it (none misses, none is ambiguous).
C3_TableComplete ==
  \A sw \in SwitchesOf(launched) :
     outcome[sw] = "installed" =>
        \A p \in Descriptors : Cardinality(Lookup(table[sw], p)) = 1

EdgeHost == [s1 |-> "h10", s2 |-> "h20", s3 |-> "h30"]

\* C4: on s1, s2 and s3, ICMP from 172.16.10.100 to the switch's own host
\* matches a Deny entry of strictly higher priority than every Permit entry
\* matching it, so the switch can only drop it.
C4_DenyOutranksPermit ==
  \A sw \in DOMAIN EdgeHost :
     (launched = "part3" /\ outcome[sw] = "installed") =>
        LET p == [dl_type |-> IPV4, nw_proto |-> ICMP_PROTO,
                  nw_src |-> IPS.hnotrust, nw_dst |-> IPS[EdgeHost[sw]]]
            t == Range(table[sw])
        IN /\ \E d \in t :
                /\ IsDeny(d) /\ Matches(d.match, p)
                /\ \A e \in t : (IsPermit(e) /\ Matches(e.match, p))
                                   => d.priority > e.priority
           /\ \A e \in Lookup(table[sw], p) : IsDeny(e)

\* C5: a connect to the part2 Firewall makes exactly three sends, in the
\* order ICMP Permit, ARP Permit, Deny.
C5_FirewallPushOrder ==
  \A sw \in Switches :
     (launched = "part2" /\ outcome[sw] # "none") =>
        /\ Len(pushed[sw]) = 3
        /\ IsPermit(pushed[sw][1])
        /\ pushed[sw][1].match.dl_type = {IPV4}
        /\ pushed[sw][1].match.nw_proto = {ICMP_PROTO}
        /\ IsPermit(pushed[sw][2])
        /\ pushed[sw][2].match.dl_type = {ARP_ETHERTYPE}
        /\ IsDeny(pushed[sw][3])

\* a part2 switch has connected and its installation ran to completion
C5_Witness == launched = "part2" /\ outcome["s1"] = "installed"

\* C6: a switch whose datapath id is none of 1, 2, 3, 21, 31 ends its connect
\* to the part3 controller as UnknownSwitch, with no send made for it and no
\* entry in its table.
C6_UnknownSwitchNoPush ==
  \A sw \in Switches :
     (launched = "part3" /\ DPID[sw] \notin KnownDpids /\ outcome[sw] # "none") =>
        /\ outcome[sw] = "UnknownSwitch"
        /\ pushed[sw] = <<>>
        /\ table[sw] = <<>>

\* the switch with datapath id 4 has connected
C6_Witness == launched = "part3" /\ outcome["s4"] = "UnknownSwitch"

\* C7: after a switch with an unknown datapath id has connected, every other
\* switch is still served: an installed switch's table-miss events are
\* handled, and a connect of any switch is still handled.
C7_ErrorIsolated ==
  (launched = "part3" /\ outcome["s4"] = "UnknownSwitch") =>
     \A sw \in Part3Switches :
        /\ outcome[sw] = "installed" => Served(sw)
        /\ ENABLED ConnectionUp(sw, Len(RoleSends(sw)))

\* C8: in the sends of one connect, no entry comes after an entry that
\* constrains strictly fewer header fields.
C8_MostSpecificFirst ==
  \A sw \in Switches :
     \A i, j \in DOMAIN pushed[sw] :
        i < j => Constrained(pushed[sw][i].match) >= Constrained(pushed[sw][j].match)

\* C9: the handling of a table-miss event leaves every switch table as it
\* was.
C9_PacketInKeepsTables ==
  [][(\E c \in inflight, parsed \in BOOLEAN : PacketIn(c, parsed))
        => table' = table]_vars

\* the part2 handler has run for a table miss at an installed switch
C9_Witness ==
  /\ launched = "part2"
  /\ outcome["s1"] = "installed"
  /\ diag # {}

\* C10: whatever prefixes earlier installations were cut to, a switch whose
\* latest installation ran to completion holds the entries of one clean
\* connect, each once.
C10_Idempotent ==
  \A sw \in SwitchesOf(launched) :
     outcome[sw] = "installed" =>
        LET clean == FlowAddAll(<<>>, RoleSends(sw)) IN
        /\ Range(table[sw]) = Range(clean)
        /\ Len(table[sw]) = Len(clean)

\* s1 is installed after an earlier installation of it was cut short (it is
\* the only switch that has connected, and one installation was cut short)
C10_Witness ==
  /\ launched = "part3"
  /\ aborts = 1
  /\ outcome["s1"] = "installed"
  /\ \A sw \in Switches \ {"s1"} : outcome[sw] = "none"

\* C11: the sends of a connect depend on the switch's datapath id alone (a
\* switch that connects again is sent the sequence it was sent before), and
\* whatever the order of connects and table misses of different switches, a
\* switch only ever receives entries of its own role.
C11_PushesByDpidOnly ==
  [][\A sw \in Switches :
       /\ outcome[sw] # "none" => pushed'[sw] = pushed[sw]
       /\ Range(table'[sw]) \subseteq Range(RoleSends(sw))]_vars

\* s1 and s2 are installed, one of them after an earlier installation that
\* was cut short, and a table miss was handled in between or after
C11_Witness ==
  /\ launched = "part3"
  /\ aborts = 1
  /\ outcome["s1"] = "installed"
  /\ outcome["s2"] = "installed"
  /\ diag # {}

\* two matches overlap when some packet matches both
Overlap(m1, m2) == \E p \in Descriptors : Matches(m1, p) /\ Matches(m2, p)

\* two entries of a send sequence constrain equally many fields and overlap
Ambiguous(fms) ==
  \E i, j \in DOMAIN fms :
     /\ i < j
     /\ Constrained(fms[i].match) = Constrained(fms[j].match)
     /\ Overlap(fms[i].match, fms[j].match)

\* C12: a switch whose role has two entries of equal specificity with
\* overlapping matches (dcs31: the Permit and the Deny for 10.0.4.10) ends
\* its connect as AmbiguousPolicy, with nothing sent and nothing installed.
C12_AmbiguousRejected ==
  \A sw \in SwitchesOf(launched) :
     (outcome[sw] # "none" /\ Ambiguous(RoleSends(sw))) =>
        /\ outcome[sw] = "AmbiguousPolicy"
        /\ pushed[sw] = <<>>
        /\ table[sw] = <<>>

\* the roles the claims call edge roles; every other role is transit
IsEdge(sw) == launched = "part2" \/ sw \in {"s1", "s2", "s3", "dcs31"}

\* C13: the last entry sent for a role matches every packet, no other entry
\* of the role has a lower priority, and its action is the role's default:
\* Deny for the part2 switch, s1, s2, s3 and dcs31, Permit for cores21.
C13_CatchAllLast ==
  \A sw \in SwitchesOf(launched) :
     outcome[sw] = "installed" =>
        LET last == pushed[sw][Len(pushed[sw])] IN
        /\ last.match = ofp_match
        /\ \A e \in Range(table[sw]) : last.priority <= e.priority
        /\ IF IsEdge(sw) THEN IsDeny(last) ELSE IsPermit(last)

\* C14: the handler of a table miss whose packet did not parse emits the
\* warning and nothing else: no dump, no send, no change of any table or of
\* the controller's state.
C14_UnparsedOnlyWarned ==
  [][\A c \in inflight :
       PacketIn(c, FALSE) =>
          /\ diag' = diag \cup {[sw |-> c.at, log |-> "warning"]}
          /\ UNCHANGED <<table, pushed, outcome, alive>>]_vars

\* the part3 handler has warned about an unparsed packet of an installed
\* switch
C14_Witness ==
  /\ launched = "part3"
  /\ \E d \in diag : d.log = "warning" /\ outcome[d.sw] = "installed"

FrontedHost == [s1 |-> "h10", s2 |-> "h20", s3 |-> "h30", dcs31 |-> "serv1"]

\* C17: every entry sent to s1, s2, s3 or dcs31 that constrains the
\* destination address constrains it to the address of the switch's own
\* host.
C17_OwnDestinationOnly ==
  \A sw \in DOMAIN FrontedHost :
     launched = "part3" =>
        \A e \in Range(pushed[sw]) \cup Range(table[sw]) :
           e.match.nw_dst # ofp_match.nw_dst =>
              e.match.nw_dst = {IPS[FrontedHost[sw]]}

\* s1, s2, s3 and dcs31 are all installed
C17_Witness ==
  /\ launched = "part3"
  /\ \A sw \in DOMAIN FrontedHost : outcome[sw] = "installed"

\* C18: every entry sent carries no action (Deny) or exactly one output
\* action (Permit): OFPP_IN_PORT on cores21, OFPP_FLOOD on every other
\* switch.
C18_ActionShapes ==
  \A sw \in Switches :
     \A e \in Range(pushed[sw]) :
        /\ Len(e.actions) <= 1
        /\ IsPermit(e) =>
              e.actions[1] = (IF launched = "part3" /\ sw = "cores21"
                              THEN OFPP_IN_PORT ELSE OFPP_FLOOD)

\* cores21 and an edge switch have been sent their entries
C18_Witness ==
  /\ launched = "part3"
  /\ outcome["cores21"] = "installed"
  /\ outcome["s1"] = "installed"

\* C15 as first stated: once the constructor has returned, no controller
\* object holds the switch's connection or is registered on it.
C15_NoReference ==
  \A sw \in SwitchesOf(launched) :
     outcome[sw] \in {"installed", "aborted"} => ~listener[sw]

\* C15: once the constructor has run for a switch's connect, the controller
\* object holds the connection in self.connection and is registered as its
\* listener.
C15_ConnectionKept ==
  \A sw \in SwitchesOf(launched) : outcome[sw] # "none" => listener[sw]

\* the constructors of both an installed and a cut-short connect have
\* returned
C15_Witness ==
  /\ launched = "part3"
  /\ outcome["s1"] = "installed"
  /\ outcome["s2"] = "aborted"

\* the number of entries one constructor run pushes, by role
PushCount(sw) ==
  IF launched = "part2" THEN 3
  ELSE IF sw \in {"s1", "s2", "s3", "dcs31"} THEN 2
  ELSE IF sw = "cores21" THEN 1
  ELSE 0

\* C16: after any number of constructor runs and table misses, the number of
\* connection.send calls made on a switch's sessions is the number of
\* constructor runs that returned for it times the count of its role: 3 for
\* the part2 switch, 2 for s1, s2, s3 and dcs31, 1 for cores21.
C16_PushCount ==
  \A sw \in SwitchesOf(launched) : nsend[sw] = nconnect[sw] * PushCount(sw)

\* s1 has connected twice and a table miss at s1 has been handled
C16_Witness ==
  /\ launched = "part3"
  /\ nconnect["s1"] = 2
  /\ nsend["s1"] = 4
  /\ \E d \in diag : d.sw = "s1"

====
